---- MODULE Spec2Model ----
(***************************************************************************)
(* Versioned file store of fszn: FileService (services/file_service.py),  *)
(* the file routes of contracts.py, PreviewService                        *)
(* (services/preview_service.py) and log_operation (operation_log.py).    *)
(*                                                                         *)
(* Python strings on which the code does character work (roles, file      *)
(* names) are sequences of one-character strings; a character outside     *)
(* ASCII is written as its code point, "U+5BA2".                          *)
(***************************************************************************)
EXTENDS Integers, Sequences, FiniteSets, TLC

\* ------------------------------------------------------------------------
\* Bounds of the model
\* ------------------------------------------------------------------------
MaxFiles == 2
MaxLogs == 3
NumCallers == 2
MaxNow == 3

\* ------------------------------------------------------------------------
\* Strings
\* ------------------------------------------------------------------------
\* Python's None where a dict is expected
None == [none |-> TRUE]
\* Python's None where a string is expected
NoString == <<"None">>

UpperCase == <<"A", "B", "C", "D", "E", "O", "P", "S", "X">>
LowerCase == <<"a", "b", "c", "d", "e", "o", "p", "s", "x">>

\* str.lower() on one character
LowerChar(c) ==
    IF \E i \in 1..Len(UpperCase) : UpperCase[i] = c
    THEN LowerCase[CHOOSE i \in 1..Len(UpperCase) : UpperCase[i] = c]
    ELSE c

\* str.lower()
Lower(s) == [i \in 1..Len(s) |-> LowerChar(s[i])]

\* str.strip(): leading and trailing blanks removed
RECURSIVE LStrip(_)
LStrip(s) == IF s # <<>> /\ Head(s) = " " THEN LStrip(Tail(s)) ELSE s
RECURSIVE RStrip(_)
RStrip(s) ==
    IF s # <<>> /\ s[Len(s)] = " " THEN RStrip(SubSeq(s, 1, Len(s) - 1)) ELSE s
Strip(s) == LStrip(RStrip(s))

\* str.replace(a, b) for a one-character a and a string b
RECURSIVE Replace(_, _, _)
Replace(s, a, b) ==
    IF s = <<>> THEN <<>>
    ELSE IF Len(s) = 1 THEN (IF s[1] = a THEN b ELSE s)
    ELSE LET half == Len(s) \div 2
         IN  Replace(SubSeq(s, 1, half), a, b)
             \o Replace(SubSeq(s, half + 1, Len(s)), a, b)

\* index of the last "." of s, 0 when s has none
RECURSIVE LastDot(_)
LastDot(s) ==
    IF s = <<>> THEN 0
    ELSE IF s[Len(s)] = "." THEN Len(s)
    ELSE LastDot(SubSeq(s, 1, Len(s) - 1))

HasDot(s) == LastDot(s) > 0

\* s.rsplit(".", 1)[-1].lower() for a string with a dot
ExtOf(s) == Lower(SubSeq(s, LastDot(s) + 1, Len(s)))

\* s.rsplit(".", 1)[0], and os.path.splitext(s)[0] for the names of the model
StemOf(s) == IF HasDot(s) THEN SubSeq(s, 1, LastDot(s) - 1) ELSE s

\* ------------------------------------------------------------------------
\* Roles and users
\* ------------------------------------------------------------------------
R_admin == <<"a", "d", "m", "i", "n">>
R_boss == <<"b", "o", "s", "s">>
R_software_engineer ==
    <<"s", "o", "f", "t", "w", "a", "r", "e", "_",
      "e", "n", "g", "i", "n", "e", "e", "r">>
R_customer == <<"c", "u", "s", "t", "o", "m", "e", "r">>
R_sales == <<"s", "a", "l", "e", "s">>
R_procurement == <<"p", "r", "o", "c", "u", "r", "e", "m", "e", "n", "t">>
R_Boss_variant == <<"B", "o", "s", "s", " ">>
R_kehu == <<"U+5BA2", "U+6237">>

\* contracts.py normalize_role: the alias table
RoleAlias(r) ==
    CASE r = <<"U+8F6F", "U+4EF6", "U+5DE5", "U+7A0B", "U+5E08">> -> R_software_engineer
      [] r = <<"U+7BA1", "U+7406", "U+5458">> -> R_admin
      [] r = <<"U+8001", "U+677F">> -> R_boss
      [] r = R_kehu -> R_customer
      [] r = <<"U+9500", "U+552E">> -> R_sales
      [] OTHER -> r

\* contracts.py normalize_role
normalize_role(role) == RoleAlias(Replace(Lower(Strip(role)), " ", <<"_">>))

\* (user.role or '').strip().lower() of the delete, restore and set_public routes
StripLower(role) == Lower(Strip(role))

\* The users of the model: users.id -> users.role (models.py User.role is free
\* text; contracts.py normalize_role exists because variants occur).
UserRoles ==
    << R_admin, R_customer, R_sales, R_procurement, R_Boss_variant, R_kehu >>
Users == 1..Len(UserRoles)
RoleOf(u) == UserRoles[u]

\* ------------------------------------------------------------------------
\* The project (models.py Contract) the files belong to
\* ------------------------------------------------------------------------
TheContract ==
    [id |-> <<"7">>,
     company |-> <<"A", "c">>,
     project_code |-> <<"P", " ", "1">>,
     contract_number |-> <<"C", "/", "9">>,
     name |-> <<"N">>]

\* ------------------------------------------------------------------------
\* State
\* ------------------------------------------------------------------------
VARIABLES
    files,      \* project_files rows, files[i].id = i
    logs,       \* operation_logs rows, in insertion order
    disk,       \* the upload tree: <<directory, name>> -> [bytes, mtime]
    cache,      \* the project's preview directory: name -> file
    now,        \* the clock behind utcnow() and the modification times
    resp,       \* the outcome of the last synchronous file operation
    pc,         \* per preview request: where the request stands
    req,        \* per preview request: its viewer, record and paths
    conv        \* per preview request: its converter process

vars == << files, logs, disk, cache, now, resp, pc, req, conv >>
storeVars == << files, logs, disk, now, resp >>
previewVars == << cache, pc, req, conv >>

FileIds == 1..Len(files)

\* ------------------------------------------------------------------------
\* operation_log.py
\* ------------------------------------------------------------------------
OBJECT_TYPE_FILE == "file"
ACTION_UPDATE == "update"
ACTION_DELETE == "delete"
ACTION_UPLOAD == "upload"
ACTION_DOWNLOAD == "download"
ACTION_RESTORE == "restore"

RemoteAddr == <<"ip">>

\* the detail dict of log_operation: "old" and "new" only when given
LogDetail(old_data, new_data) ==
    LET keys == (IF old_data # None THEN {"old"} ELSE {})
                \cup (IF new_data # None THEN {"new"} ELSE {})
    IN  IF keys = {} THEN None
        ELSE [k \in keys |-> IF k = "old" THEN old_data ELSE new_data]

\* a row that is written with the action update whatever the caller passed
LogRow_Mutant(operator, object_id, action, old_data, new_data, request) ==
    [operator_id |-> operator,
     contract_id |-> TheContract.id,
     object_type |-> OBJECT_TYPE_FILE,
     object_id |-> object_id,
     action |-> ACTION_UPDATE,
     detail |-> LogDetail(old_data, new_data),
     ip_address |-> request]

\* the row log_operation adds; json.dumps keeps the dict's structure, the model
\* keeps the dict
LogRow(operator, object_id, action, old_data, new_data, request) ==
    [operator_id |-> operator,
     contract_id |-> TheContract.id,
     object_type |-> OBJECT_TYPE_FILE,
     object_id |-> object_id,
     action |-> action,
     detail |-> LogDetail(old_data, new_data),
     ip_address |-> request]

\* a log that keeps only the newest entry of each object
log_operation_Mutant(lg, operator, object_id, action, old_data, new_data, request) ==
    Append(SelectSeq(lg, LAMBDA l : l.object_id # object_id),
           LogRow(operator, object_id, action, old_data, new_data, request))

log_operation(lg, operator, object_id, action, old_data, new_data, request) ==
    Append(lg, LogRow(operator, object_id, action, old_data, new_data, request))

\* ------------------------------------------------------------------------
\* services/file_service.py: constants and helpers
\* ------------------------------------------------------------------------
E_pdf == <<"p", "d", "f">>
E_docx == <<"d", "o", "c", "x">>
E_xlsx == <<"x", "l", "s", "x">>

ALLOWED_EXTENSIONS ==
    { E_pdf, <<"p", "n", "g">>, <<"j", "p", "g">>, <<"j", "p", "e", "g">>,
      <<"d", "o", "c">>, E_docx, <<"x", "l", "s">>, E_xlsx,
      <<"p", "p", "t">>, <<"p", "p", "t", "x">>, <<"m", "r", "c", "2">> }

DRAWING_EXTENSIONS ==
    ALLOWED_EXTENSIONS \cup
    { <<"d", "w", "g">>, <<"d", "x", "f">>,
      <<"s", "l", "d", "p", "r", "t">>, <<"s", "l", "d", "a", "s", "m">> }

T_all == {"contract", "tech", "drawing", "invoice", "ticket"}
T_engineer == {"contract", "drawing", "tech", "invoice"}

ROLE_ALLOWED_TYPES(role) ==
    CASE role = R_admin -> T_all
      [] role = R_boss -> T_all
      [] role = R_software_engineer -> T_engineer
      [] role = <<"m", "e", "c", "h", "a", "n", "i", "c", "a", "l", "_",
                  "e", "n", "g", "i", "n", "e", "e", "r">> -> T_engineer
      [] role = <<"e", "l", "e", "c", "t", "r", "i", "c", "a", "l", "_",
                  "e", "n", "g", "i", "n", "e", "e", "r">> -> T_engineer
      [] role = R_sales -> {"contract", "tech", "ticket", "invoice"}
      [] role = R_procurement -> T_engineer
      [] OTHER -> T_engineer

\* the characters of a file type, and FILE_TYPE_NAME_MAP.get(file_type, file_type)
TypeChars(ft) ==
    CASE ft = "contract" -> <<"c", "o", "n", "t", "r", "a", "c", "t">>
      [] ft = "tech" -> <<"t", "e", "c", "h">>
      [] ft = "drawing" -> <<"d", "r", "a", "w", "i", "n", "g">>
      [] ft = "invoice" -> <<"i", "n", "v", "o", "i", "c", "e">>
      [] ft = "ticket" -> <<"t", "i", "c", "k", "e", "t">>
      [] ft = "bogus" -> <<"b", "o", "g", "u", "s">>

FILE_TYPE_NAME_MAP(ft) ==
    CASE ft = "contract" -> <<"U+5408", "U+540C">>
      [] ft = "tech" -> <<"U+6280", "U+672F", "U+6587", "U+6863">>
      [] ft = "drawing" -> <<"U+56FE", "U+7EB8">>
      [] ft = "invoice" -> <<"U+5176", "U+5B83">>
      [] OTHER -> TypeChars(ft)

\* allowed_file with the drawing extensions let through for every file type
allowed_file_Mutant(filename, file_type) ==
    IF filename = <<>> \/ ~HasDot(filename) THEN FALSE
    ELSE ExtOf(filename) \in DRAWING_EXTENSIONS

allowed_file(filename, file_type) ==
    IF filename = <<>> \/ ~HasDot(filename) THEN FALSE
    ELSE IF file_type = "drawing" THEN ExtOf(filename) \in DRAWING_EXTENSIONS
    ELSE ExtOf(filename) \in ALLOWED_EXTENSIONS

get_role_allowed_types(u) == ROLE_ALLOWED_TYPES(StripLower(RoleOf(u)))

InvalidChars == {"\\", "/", ":", "*", "?", "\"", "<", ">", "|"}

\* for ch in invalid: text = text.replace(ch, "")
DropInvalid(s) == SelectSeq(s, LAMBDA c : c \notin InvalidChars)

sanitize_part(text) == Replace(DropInvalid(text), " ", <<"_">>)

\* x or y, for strings
OrElse(x, y) == IF x = <<>> THEN y ELSE x

RECURSIVE JoinUnderscore(_)
JoinUnderscore(parts) ==
    IF Len(parts) = 1 THEN parts[1]
    ELSE parts[1] \o <<"_">> \o JoinUnderscore(Tail(parts))

MaxBaseLen == 180

\* datetime.utcnow().strftime("%Y%m%d"): the model's operations fall on one day
today_str == <<"2", "0", "2", "5", "0", "1", "0", "2">>

generate_file_name(contract, file_type, version, author, original_filename) ==
    LET name_without_ext == StemOf(original_filename)
        ext == IF HasDot(original_filename)
               THEN <<".">> \o ExtOf(original_filename) ELSE <<>>
        parts ==
            << OrElse(sanitize_part(contract.company), <<"N", "o", "C", "o", "m", "p", "a", "n", "y">>),
               OrElse(sanitize_part(contract.project_code), <<"N", "o", "P", "r", "o", "j", "e", "c", "t">>),
               OrElse(sanitize_part(contract.contract_number),
                      <<"N", "o", "C", "o", "n", "t", "r", "a", "c", "t", "N", "o">>),
               OrElse(sanitize_part(contract.name), <<"N", "o", "N", "a", "m", "e">>),
               today_str,
               sanitize_part(FILE_TYPE_NAME_MAP(file_type)),
               sanitize_part(OrElse(name_without_ext,
                                    <<"N", "o", "F", "i", "l", "e", "n", "a", "m", "e">>)),
               sanitize_part(OrElse(version, <<"V", "1">>)),
               sanitize_part(OrElse(author, <<"u", "n", "k", "n", "o", "w", "n">>)) >>
        base == JoinUnderscore(parts)
    IN  (IF Len(base) > MaxBaseLen THEN SubSeq(base, 1, MaxBaseLen) ELSE base) \o ext

\* FileService.get_project_dir_name
get_project_dir_name(contract) ==
    OrElse(sanitize_part(contract.project_code), contract.id)

Exists(path) == path \in DOMAIN disk

\* get_file_path with the per-id directory tried before the project directory
get_file_path_Mutant(contract, pf) ==
    LET new_path == << get_project_dir_name(contract), pf.stored_filename >>
        old_contract_dir_path == << contract.id, pf.stored_filename >>
        flat_path == << <<>>, pf.stored_filename >>
    IN  IF Exists(old_contract_dir_path) THEN old_contract_dir_path
        ELSE IF Exists(new_path) THEN new_path
        ELSE flat_path

\* FileService.get_file_path; the upload root is the directory <<>>
get_file_path(contract, pf) ==
    LET new_path == << get_project_dir_name(contract), pf.stored_filename >>
        old_contract_dir_path == << contract.id, pf.stored_filename >>
        flat_path == << <<>>, pf.stored_filename >>
    IN  IF Exists(new_path) THEN new_path
        ELSE IF Exists(old_contract_dir_path) THEN old_contract_dir_path
        ELSE flat_path

\* ------------------------------------------------------------------------
\* The outcome of an operation, as its caller sees it
\* ------------------------------------------------------------------------
Resp(op, actor, fid, arg, status, body) ==
    [op |-> op, actor |-> actor, fid |-> fid, arg |-> arg,
     status |-> status, body |-> body]

NoResp == Resp("none", 0, 0, None, "none", <<>>)

\* The requests are served one at a time (section 5 of the specification:
\* synchronous, request-driven): an operation is taken up once the outcome of
\* the previous one has been handed to its caller
Idle == resp = NoResp

Respond ==
    /\ resp # NoResp
    /\ resp' = NoResp
    /\ UNCHANGED << files, logs, disk, now, cache, pc, req, conv >>

\* ProjectFile.query.filter_by(id=file_id, contract_id=contract.id).first()
HasRow(fid) == fid \in FileIds

\* ------------------------------------------------------------------------
\* FileService.list_files_for_user
\* ------------------------------------------------------------------------
\* the ids of S by created_at ascending
RECURSIVE OrderByCreatedDesc_Mutant(_)
OrderByCreatedDesc_Mutant(S) ==
    IF S = {} THEN <<>>
    ELSE LET m == CHOOSE i \in S :
                    \A j \in S : files[i].created_at <= files[j].created_at
         IN  <<m>> \o OrderByCreatedDesc_Mutant(S \ {m})

\* the ids of S by created_at descending
RECURSIVE OrderByCreatedDesc(_)
OrderByCreatedDesc(S) ==
    IF S = {} THEN <<>>
    ELSE LET m == CHOOSE i \in S :
                    \A j \in S : files[j].created_at <= files[i].created_at
         IN  <<m>> \o OrderByCreatedDesc(S \ {m})

GroupKey(f) == << f.file_type, OrElse(f.original_filename, f.stored_filename) >>

\* the first row of each (file_type, original name) group, in list order
RECURSIVE LatestOf(_, _)
LatestOf(ids, seen_keys) ==
    IF ids = <<>> THEN <<>>
    ELSE IF GroupKey(files[Head(ids)]) \in seen_keys
         THEN LatestOf(Tail(ids), seen_keys)
         ELSE <<Head(ids)>>
              \o LatestOf(Tail(ids), seen_keys \cup {GroupKey(files[Head(ids)])})

\* file_type: a type or "" (no filter); is_public: "True", "False" or "None"
list_files_for_user(u, file_type, is_public, include_deleted, latest_only) ==
    LET q1 == { i \in FileIds : include_deleted \/ ~files[i].is_deleted }
        q2 == { i \in q1 : file_type = "" \/ files[i].file_type = file_type }
        q3 == IF RoleOf(u) = R_customer
              THEN { i \in q2 : files[i].is_public
                                /\ files[i].file_type \in {"contract", "tech"} }
              ELSE { i \in q2 : is_public = "None"
                                \/ files[i].is_public = (is_public = "True") }
        all == OrderByCreatedDesc(q3)
    IN  IF ~latest_only THEN all ELSE LatestOf(all, {})

\* contracts.py manage_files, GET: the list the page shows
ManageFilesGet(u, file_type, is_public, show_deleted, latest_only_flag) ==
    LET all_files == list_files_for_user(u, file_type, is_public, show_deleted, FALSE)
        latest_files == list_files_for_user(u, file_type, is_public, show_deleted, TRUE)
        latest_ids == { latest_files[k] : k \in 1..Len(latest_files) }
        shown == IF latest_only_flag
                 THEN SelectSeq(all_files, LAMBDA i : i \in latest_ids)
                 ELSE all_files
    IN  /\ Idle
        /\ resp' = Resp("list", u, 0,
                        [file_type |-> file_type, is_public |-> is_public,
                         include_deleted |-> show_deleted,
                         latest_only |-> latest_only_flag],
                        "200", shown)
        /\ UNCHANGED << files, logs, disk, now >>
        /\ UNCHANGED previewVars

\* ------------------------------------------------------------------------
\* FileService.save_uploaded_file
\* ------------------------------------------------------------------------
\* the database, the upload tree and the clock, as one value
StoreNow == [files |-> files, logs |-> logs, disk |-> disk, now |-> now]

NewRow(st, u, filename, file_type, version, is_public, author, stored_filename) ==
    [id |-> Len(st.files) + 1,
     contract_id |-> TheContract.id,
     uploader_id |-> u,
     file_type |-> file_type,
     version |-> version,
     author |-> author,
     original_filename |-> filename,
     stored_filename |-> stored_filename,
     is_public |-> is_public,
     owner_role |-> RoleOf(u),
     is_deleted |-> FALSE,
     created_at |-> st.now]

\* the bytes of a file whose writing was cut short
Torn == 0

\* uploaded_file.save(file_path): the file written in full, or an OSError
\* raised before the file exists ("none") or after part of it is on disk
WriteOutcomes == {"full", "none", "partial"}

\* save with the row committed and logged before the write is attempted
RaisedInSave_Mutant(before, committed) == committed

\* uploaded_file.save raises: the exception leaves save_uploaded_file at the
\* write, so of the store before the call and the store with the row
\* committed and logged, the first is the one that stays
RaisedInSave(before, committed) == before

\* the store after save_uploaded_file, with the call's outcome (status) and
\* the id of the row it returns
save_into(st, u, filename, bytes, file_type, version, is_public, author, saved) ==
    LET stored_filename ==
            generate_file_name(TheContract, file_type, version, author, filename)
        file_path == << get_project_dir_name(TheContract), stored_filename >>
        pf == NewRow(st, u, filename, file_type, version, is_public, author,
                     stored_filename)
        written(b) == [ p \in DOMAIN st.disk \cup {file_path} |->
                          IF p = file_path THEN [bytes |-> b, mtime |-> st.now]
                          ELSE st.disk[p] ]
        same == [files |-> st.files, logs |-> st.logs, disk |-> st.disk,
                 now |-> st.now, fid |-> 0]
        committed ==
            [files |-> Append(st.files, pf),
             logs |-> log_operation(st.logs, u, pf.id, ACTION_UPLOAD, None,
                          [file_type |-> pf.file_type,
                           version |-> pf.version,
                           original_filename |-> pf.original_filename,
                           stored_filename |-> pf.stored_filename,
                           is_public |-> pf.is_public],
                          NoString),
             disk |-> st.disk,
             now |-> st.now + 1,
             fid |-> pf.id]
    IN  IF ~allowed_file(filename, file_type)
        THEN same @@ [status |-> "ValueError"]
        ELSE IF file_type \notin get_role_allowed_types(u)
        THEN same @@ [status |-> "PermissionError"]
        ELSE IF saved = "none"
        THEN RaisedInSave(same, committed) @@ [status |-> "OSError"]
        ELSE IF saved = "partial"
        THEN [RaisedInSave(same, committed) EXCEPT !.disk = written(Torn)]
             @@ [status |-> "OSError"]
        ELSE [committed EXCEPT !.disk = written(bytes)] @@ [status |-> "ok"]

\* what an upload was called with
UploadArg(filename, bytes, file_type, version, is_public, author) ==
    [filename |-> filename, bytes |-> bytes, file_type |-> file_type,
     version |-> version, is_public |-> is_public, author |-> author]

save_uploaded_file(u, filename, bytes, file_type, version, is_public, author, saved) ==
    LET r == save_into(StoreNow, u, filename, bytes, file_type, version,
                       is_public, author, saved)
    IN  /\ Len(r.files) <= MaxFiles
        /\ Len(r.logs) <= MaxLogs
        /\ files' = r.files
        /\ logs' = r.logs
        /\ disk' = r.disk
        /\ now' = r.now
        /\ resp' = Resp("upload", u, r.fid,
                        UploadArg(filename, bytes, file_type, version,
                                  is_public, author),
                        r.status, <<>>)

SaveUploadedFile(u, filename, bytes, file_type, version, is_public, author, saved) ==
    /\ Idle
    /\ save_uploaded_file(u, filename, bytes, file_type, version, is_public,
                          author, saved)
    /\ UNCHANGED previewVars

\* FileService.save_multiple_files: items are the uploaded files, each with
\* its name, its bytes and the outcome of its write; the result is the store
\* after the loop and either the rows saved or the exception that ended it
RECURSIVE save_multiple_files(_, _, _, _, _, _, _, _)
save_multiple_files(st, saved, u, items, file_type, version, is_public, author) ==
    IF items = <<>> THEN [st |-> st, status |-> "ok", saved |-> saved]
    ELSE IF Head(items).filename = <<>>
    THEN save_multiple_files(st, saved, u, Tail(items), file_type, version,
                             is_public, author)
    ELSE CHOOSE end \in
           { IF r.status # "ok"
             THEN [st |-> r, status |-> r.status, saved |-> <<>>]
             ELSE save_multiple_files(r, Append(saved, r.fid), u, Tail(items),
                                      file_type, version, is_public, author) :
             r \in { save_into(st, u, Head(items).filename, Head(items).bytes,
                               file_type, version, is_public, author,
                               Head(items).saved) } } : TRUE

\* user.real_name or user.username
UserName(u) == <<"u">>

\* contracts.py manage_files, POST. The page is told the number of saved files
\* when the loop ends (reported = <<n>>), and the text of the exception alone
\* when a ValueError or a PermissionError ends it (reported = <<>>); any other
\* exception is not caught
ManageFilesPost(u, items, file_type, version, is_public, author) ==
    LET version1 == OrElse(Strip(version), <<"V", "1">>)
        author1 == OrElse(author, UserName(u))
        arg(reported) == [names |-> [k \in 1..Len(items) |-> items[k].filename],
                          file_type |-> file_type,
                          reported |-> reported]
    IN  /\ Idle
        /\ UNCHANGED previewVars
        /\ IF items = <<>> \/ file_type = ""
           THEN /\ resp' = Resp("upload_batch", u, 0, arg(<<>>), "rejected", <<>>)
                /\ UNCHANGED << files, logs, disk, now >>
           ELSE \E r \in { save_multiple_files(StoreNow, <<>>, u, items,
                                               file_type, version1, is_public,
                                               author1) } :
                /\ Len(r.st.files) <= MaxFiles
                /\ Len(r.st.logs) <= MaxLogs
                /\ files' = r.st.files
                /\ logs' = r.st.logs
                /\ disk' = r.st.disk
                /\ now' = r.st.now
                /\ resp' = Resp("upload_batch", u, 0,
                                arg(IF r.status = "ok" THEN <<Len(r.saved)>>
                                    ELSE <<>>),
                                r.status, r.saved)

\* FileService.list_files_for_user, called directly
ListFilesForUser(u, file_type, is_public, include_deleted, latest_only) ==
    /\ Idle
    /\ resp' = Resp("list", u, 0,
                    [file_type |-> file_type, is_public |-> is_public,
                     include_deleted |-> include_deleted,
                     latest_only |-> latest_only],
                    "200",
                    list_files_for_user(u, file_type, is_public,
                                        include_deleted, latest_only))
    /\ UNCHANGED << files, logs, disk, now >>
    /\ UNCHANGED previewVars

\* ------------------------------------------------------------------------
\* Download: FileService.get_file_for_download and the route download_file
\* ------------------------------------------------------------------------
Elevated == {R_admin, R_boss, R_software_engineer}

\* the permission part of FileService.get_file_for_download
ServiceDownloadVerdict(u, pf) ==
    IF RoleOf(u) = R_customer
       /\ (~pf.is_public \/ pf.file_type \notin {"contract", "tech"})
    THEN "PermissionError"
    ELSE IF RoleOf(u) \notin Elevated
            /\ pf.owner_role # <<>> /\ pf.owner_role # RoleOf(u)
    THEN "PermissionError"
    ELSE "ok"

GetFileForDownload(u, fid) ==
    /\ Idle
    /\ UNCHANGED << files, disk, now >>
    /\ UNCHANGED previewVars
    /\ IF ~HasRow(fid) \/ files[fid].is_deleted
       THEN /\ resp' = Resp("download", u, fid, None, "FileNotFoundError", <<>>)
            /\ UNCHANGED logs
       ELSE IF ServiceDownloadVerdict(u, files[fid]) # "ok"
       THEN /\ resp' = Resp("download", u, fid, None, "PermissionError", <<>>)
            /\ UNCHANGED logs
       ELSE /\ Len(logs) < MaxLogs
            /\ logs' = log_operation(logs, u, fid, ACTION_DOWNLOAD, None,
                           [download |-> TRUE,
                            stored_filename |-> files[fid].stored_filename,
                            original_filename |-> files[fid].original_filename],
                           NoString)
            /\ resp' = Resp("download", u, fid, None, "ok", <<>>)

\* the permission chain shared by download_file and preview_converted_file_raw
RouteDownloadVerdict(u, pf) ==
    LET role == normalize_role(RoleOf(u))
    IN  IF role \in Elevated THEN "ok"
        ELSE IF role = R_customer
        THEN (IF pf.is_public /\ pf.file_type \in {"contract", "tech"}
              THEN "ok" ELSE "denied")
        ELSE (IF pf.owner_role # <<>> /\ pf.owner_role # RoleOf(u)
              THEN "denied" ELSE "ok")

\* the permission chain of preview_file and preview_file_raw: its last branch
\* is commented out in the source
RoutePreviewVerdict(u, pf) ==
    LET role == normalize_role(RoleOf(u))
    IN  IF role \in Elevated THEN "ok"
        ELSE IF role = R_customer
        THEN (IF pf.is_public /\ pf.file_type \in {"contract", "tech"}
              THEN "ok" ELSE "denied")
        ELSE "ok"

\* ProjectFile.query.filter_by(id, contract_id, is_deleted=False).first_or_404()
HasLiveRow(fid) == HasRow(fid) /\ ~files[fid].is_deleted

DownloadFile(u, fid) ==
    /\ Idle
    /\ UNCHANGED << files, disk, now >>
    /\ UNCHANGED previewVars
    /\ IF ~HasLiveRow(fid)
       THEN /\ resp' = Resp("download", u, fid, None, "404", <<>>)
            /\ UNCHANGED logs
       ELSE IF RouteDownloadVerdict(u, files[fid]) # "ok"
       THEN /\ resp' = Resp("download", u, fid, None, "denied", <<>>)
            /\ UNCHANGED logs
       ELSE /\ Len(logs) < MaxLogs
            /\ logs' = log_operation(logs, u, fid, ACTION_DOWNLOAD, None,
                           [download |-> TRUE,
                            file_type |-> files[fid].file_type,
                            version |-> files[fid].version,
                            original_filename |-> files[fid].original_filename,
                            stored_filename |-> files[fid].stored_filename],
                           RemoteAddr)
            /\ resp' = Resp("download", u, fid, None,
                            IF Exists(get_file_path(TheContract, files[fid]))
                            THEN "200" ELSE "404",
                            <<>>)

\* contracts.py preview_file_raw
PreviewFileRaw(u, fid) ==
    /\ Idle
    /\ UNCHANGED << files, logs, disk, now >>
    /\ UNCHANGED previewVars
    /\ resp' = Resp("preview_raw", u, fid, None,
                    IF ~HasLiveRow(fid) THEN "404"
                    ELSE IF RoutePreviewVerdict(u, files[fid]) # "ok" THEN "403"
                    ELSE IF ~Exists(get_file_path(TheContract, files[fid])) THEN "404"
                    ELSE "200",
                    <<>>)

\* ------------------------------------------------------------------------
\* Soft delete and restore
\* ------------------------------------------------------------------------
SetField(fid, field, value) == [files EXCEPT ![fid][field] = value]

\* FileService.soft_delete_file; logged is FALSE when the commit of the
\* operation log row raises: the flag is committed before log_operation runs
SoftDeleteFile(u, fid, logged) ==
    /\ Idle
    /\ UNCHANGED << disk, now >>
    /\ UNCHANGED previewVars
    /\ IF ~HasRow(fid)
       THEN /\ resp' = Resp("delete", u, fid, None, "FileNotFoundError", <<>>)
            /\ UNCHANGED << files, logs >>
       ELSE /\ Len(logs) < MaxLogs
            /\ files' = SetField(fid, "is_deleted", TRUE)
            /\ IF logged
               THEN /\ logs' = log_operation(logs, u, fid, ACTION_DELETE, None,
                                             [is_deleted |-> TRUE], NoString)
                    /\ resp' = Resp("delete", u, fid, None, "ok", <<>>)
               ELSE /\ logs' = logs
                    /\ resp' = Resp("delete", u, fid, None,
                                    "SQLAlchemyError", <<>>)

\* FileService.restore_file
RestoreFileService(u, fid) ==
    /\ Idle
    /\ UNCHANGED << disk, now >>
    /\ UNCHANGED previewVars
    /\ IF ~HasRow(fid)
       THEN /\ resp' = Resp("restore", u, fid, None, "FileNotFoundError", <<>>)
            /\ UNCHANGED << files, logs >>
       ELSE /\ Len(logs) < MaxLogs
            /\ files' = SetField(fid, "is_deleted", FALSE)
            /\ logs' = log_operation(logs, u, fid, ACTION_RESTORE, None,
                                     [is_deleted |-> FALSE], NoString)
            /\ resp' = Resp("restore", u, fid, None, "ok", <<>>)

\* who may delete pf in the route delete_file
MayDelete(u, pf) ==
    u = pf.uploader_id \/ StripLower(RoleOf(u)) \in {R_admin, R_boss}

\* contracts.py delete_file
DeleteFile(u, fid) ==
    /\ Idle
    /\ UNCHANGED << disk, now >>
    /\ UNCHANGED previewVars
    /\ IF ~HasLiveRow(fid)
       THEN /\ resp' = Resp("delete", u, fid, None, "404", <<>>)
            /\ UNCHANGED << files, logs >>
       ELSE IF ~MayDelete(u, files[fid])
       THEN /\ resp' = Resp("delete", u, fid, None, "denied", <<>>)
            /\ UNCHANGED << files, logs >>
       ELSE /\ Len(logs) < MaxLogs
            /\ files' = SetField(fid, "is_deleted", TRUE)
            /\ logs' = log_operation(logs, u, fid, ACTION_DELETE,
                           [file_type |-> files[fid].file_type,
                            version |-> files[fid].version,
                            original_filename |-> files[fid].original_filename,
                            stored_filename |-> files[fid].stored_filename,
                            is_public |-> files[fid].is_public,
                            is_deleted |-> files[fid].is_deleted],
                           [is_deleted |-> TRUE], RemoteAddr)
            /\ resp' = Resp("delete", u, fid, None, "ok", <<>>)

\* who may restore in the route restore_file
MayRestore(u) == StripLower(RoleOf(u)) \in {R_admin, R_boss}

\* contracts.py restore_file
RestoreFile(u, fid) ==
    /\ Idle
    /\ UNCHANGED << disk, now >>
    /\ UNCHANGED previewVars
    /\ IF ~HasRow(fid)
       THEN /\ resp' = Resp("restore", u, fid, None, "404", <<>>)
            /\ UNCHANGED << files, logs >>
       ELSE IF ~MayRestore(u)
       THEN /\ resp' = Resp("restore", u, fid, None, "denied", <<>>)
            /\ UNCHANGED << files, logs >>
       ELSE IF ~files[fid].is_deleted
       THEN /\ resp' = Resp("restore", u, fid, None, "not_deleted", <<>>)
            /\ UNCHANGED << files, logs >>
       ELSE /\ Len(logs) < MaxLogs
            /\ files' = SetField(fid, "is_deleted", FALSE)
            /\ logs' = log_operation(logs, u, fid, ACTION_RESTORE,
                           [is_deleted |-> files[fid].is_deleted],
                           [is_deleted |-> FALSE], RemoteAddr)
            /\ resp' = Resp("restore", u, fid, None, "ok", <<>>)

\* ------------------------------------------------------------------------
\* Visibility
\* ------------------------------------------------------------------------
\* who may call FileService.set_public
ServiceMaySetPublic(u) == RoleOf(u) \in {R_admin, R_boss, R_sales}

\* the value FileService.set_public logs as old: the assignment of old, the
\* write and the commit stand twice in the source, so the second reading of
\* pf.is_public, taken after the first write, is the one that is logged
ServiceLoggedOld(before, is_public) ==
    LET old1 == before
        after1 == is_public
        old2 == after1
    IN  old2

\* FileService.set_public
SetPublicService(u, fid, is_public) ==
    /\ Idle
    /\ UNCHANGED << disk, now >>
    /\ UNCHANGED previewVars
    /\ IF ~ServiceMaySetPublic(u)
       THEN /\ resp' = Resp("set_public", u, fid, [is_public |-> is_public], "PermissionError", <<>>)
            /\ UNCHANGED << files, logs >>
       ELSE IF ~HasRow(fid)
       THEN /\ resp' = Resp("set_public", u, fid, [is_public |-> is_public], "FileNotFoundError", <<>>)
            /\ UNCHANGED << files, logs >>
       ELSE /\ Len(logs) < MaxLogs
            /\ files' = SetField(fid, "is_public", is_public)
            /\ logs' = log_operation(logs, u, fid, ACTION_UPDATE,
                           [is_public |-> ServiceLoggedOld(files[fid].is_public,
                                                           is_public)],
                           [is_public |-> is_public], NoString)
            /\ resp' = Resp("set_public", u, fid, [is_public |-> is_public], "ok", <<>>)

\* the route's role test with procurement let through
MaySetPublic_Mutant(u) ==
    StripLower(RoleOf(u)) \in {R_admin, R_boss, R_sales, R_procurement}

\* who may call the route set_public
MaySetPublic(u) == StripLower(RoleOf(u)) \in {R_admin, R_boss, R_sales}

\* contracts.py set_public
SetPublic(u, fid, is_public) ==
    /\ Idle
    /\ UNCHANGED << disk, now >>
    /\ UNCHANGED previewVars
    /\ IF ~HasLiveRow(fid)
       THEN /\ resp' = Resp("set_public", u, fid, [is_public |-> is_public], "404", <<>>)
            /\ UNCHANGED << files, logs >>
       ELSE IF ~MaySetPublic(u)
       THEN /\ resp' = Resp("set_public", u, fid, [is_public |-> is_public], "denied", <<>>)
            /\ UNCHANGED << files, logs >>
       ELSE /\ Len(logs) < MaxLogs
            /\ files' = SetField(fid, "is_public", is_public)
            /\ logs' = log_operation(logs, u, fid, ACTION_UPDATE,
                           [is_public |-> files[fid].is_public],
                           [is_public |-> is_public], RemoteAddr)
            /\ resp' = Resp("set_public", u, fid, [is_public |-> is_public], "ok", <<>>)

\* ------------------------------------------------------------------------
\* services/preview_service.py
\* ------------------------------------------------------------------------
Callers == 1..NumCallers

OFFICE_PREVIEW_EXTS ==
    { <<"d", "o", "c">>, E_docx, <<"x", "l", "s">>, E_xlsx,
      <<"p", "p", "t">>, <<"p", "p", "t", "x">> }

\* os.path.basename
RECURSIVE LastSlash(_)
LastSlash(s) ==
    IF s = <<>> THEN 0
    ELSE IF s[Len(s)] = "/" THEN Len(s)
    ELSE LastSlash(SubSeq(s, 1, Len(s) - 1))
Basename(s) == SubSeq(s, LastSlash(s) + 1, Len(s))

\* a test that takes every name with an extension for an office file
_is_office_file_Mutant(pf) ==
    LET name == Lower(OrElse(pf.original_filename, pf.stored_filename))
    IN  HasDot(name)

_is_office_file(pf) ==
    LET name == Lower(OrElse(pf.original_filename, pf.stored_filename))
    IN  HasDot(name) /\ ExtOf(name) \in OFFICE_PREVIEW_EXTS

Pdf == <<".", "p", "d", "f">>
PreviewPdf == <<"_", "p", "r", "e", "v", "i", "e", "w">> \o Pdf
FileWord == <<"f", "i", "l", "e">>

\* the base of the record's original name, as _get_preview_target_path and the
\* last fallback of get_or_generate_office_preview compute it
PreviewBase(pf) ==
    LET name == OrElse(OrElse(pf.original_filename, pf.stored_filename), FileWord)
    IN  OrElse(sanitize_part(StemOf(Basename(name))), FileWord)

\* PreviewService._get_preview_target_path: the name inside the project's
\* preview directory
_get_preview_target_path(pf) == PreviewBase(pf) \o PreviewPdf

\* the name get_or_generate_office_preview looks for first after a conversion
SrcCandidate(src_path) ==
    OrElse(sanitize_part(StemOf(src_path[2])), FileWord) \o Pdf

InCache(name) == name \in DOMAIN cache

\* a file of the preview directory: its modification time, the converter
\* processes that have it open for writing, whether a writer was killed
\* before it finished, and the record whose bytes it renders
CacheFile(mtime, writers, torn, of) ==
    [mtime |-> mtime, writers |-> writers, torn |-> torn, of |-> of]

Complete(name) == cache[name].writers = {} /\ ~cache[name].torn

\* the cache test of get_or_generate_office_preview; getmtime of a missing
\* source raises OSError, which sends the call to the conversion
CacheHit(target, src_path) ==
    /\ InCache(target)
    /\ Exists(src_path)
    /\ cache[target].mtime >= disk[src_path].mtime

NoReq ==
    [viewer |-> 0, fid |-> 0, src |-> <<>>, target |-> <<>>,
     result |-> NoString, invoked |-> FALSE, writing |-> FALSE,
     overlap |-> {}, status |-> "none", served |-> NoString]
NoConv == [state |-> "none", out |-> <<>>]

InitPreview ==
    /\ cache = <<>>
    /\ pc = [p \in Callers |-> "idle"]
    /\ req = [p \in Callers |-> NoReq]
    /\ conv = [p \in Callers |-> NoConv]

\* q's call has missed the cache and its conversion has not yet come back
Converting(q) == pc[q] \in {"convert", "wait"}

\* what get_or_generate_office_preview returns, and whether a converter has
\* the returned file open for writing at that moment (c is the directory)
Returned(r, path, c) ==
    [r EXCEPT !.result = path,
              !.writing = IF path = NoString THEN FALSE
                          ELSE c[path].writers # {}]

\* contracts.py preview_converted_file_raw up to the conversion: the row, the
\* permission chain, the source path, and get_or_generate_office_preview up to
\* its cache test
PreviewConvertedStart(p, u, fid) ==
    /\ pc[p] \in {"idle", "done"}
    /\ UNCHANGED << storeVars, cache, conv >>
    /\ LET r0 == [NoReq EXCEPT !.viewer = u, !.fid = fid]
       IN  IF ~HasLiveRow(fid)
           THEN /\ req' = [req EXCEPT ![p] = [r0 EXCEPT !.status = "404"]]
                /\ pc' = [pc EXCEPT ![p] = "done"]
           ELSE IF RouteDownloadVerdict(u, files[fid]) # "ok"
           THEN /\ req' = [req EXCEPT ![p] = [r0 EXCEPT !.status = "403"]]
                /\ pc' = [pc EXCEPT ![p] = "done"]
           ELSE LET src_path == get_file_path(TheContract, files[fid])
                    target == _get_preview_target_path(files[fid])
                    others == { q \in Callers \ {p} : Converting(q) }
                    r1 == [r0 EXCEPT !.src = src_path, !.target = target,
                                     !.overlap = others]
                    met == [q \in Callers |->
                              IF q \in others
                              THEN [req[q] EXCEPT !.overlap = @ \cup {p}]
                              ELSE req[q]]
                IN  IF ~_is_office_file(files[fid])
                    THEN /\ req' = [met EXCEPT ![p] = r1]
                         /\ pc' = [pc EXCEPT ![p] = "respond"]
                    ELSE IF CacheHit(target, src_path)
                    THEN /\ req' = [met EXCEPT ![p] = Returned(r1, target, cache)]
                         /\ pc' = [pc EXCEPT ![p] = "respond"]
                    ELSE /\ req' = [met EXCEPT ![p] = r1]
                         /\ pc' = [pc EXCEPT ![p] = "convert"]

\* the response has gone out; the caller may ask again
PreviewConvertedReturn(p) ==
    /\ pc[p] = "done"
    /\ UNCHANGED << storeVars, cache, conv >>
    /\ pc' = [pc EXCEPT ![p] = "idle"]
    /\ req' = [req EXCEPT ![p] = NoReq]

\* the names the converter may give its output: the source's base, the
\* expected target, or the base of the original name
OutNames(r) ==
    IF r.src = <<>> THEN {}
    ELSE { SrcCandidate(r.src), r.target, PreviewBase(files[r.fid]) \o Pdf }

\* _run_libreoffice_convert: subprocess.run starts the converter, or raises
\* before any process exists (started = FALSE), which ends the call with None
ConvStart(p, started, out) ==
    /\ pc[p] = "convert"
    /\ UNCHANGED << storeVars, cache >>
    /\ IF started
       THEN /\ out \in OutNames(req[p])
            /\ req' = [req EXCEPT ![p].invoked = TRUE]
            /\ conv' = [conv EXCEPT ![p] = [state |-> "running", out |-> out]]
            /\ pc' = [pc EXCEPT ![p] = "wait"]
       ELSE /\ out = <<>>
            /\ req' = [req EXCEPT ![p] = Returned(req[p], NoString, cache)]
            /\ UNCHANGED conv
            /\ pc' = [pc EXCEPT ![p] = "respond"]

\* the converter opens its output: a new file, or the existing one truncated
ConvWrite(p) ==
    /\ pc[p] = "wait" /\ conv[p].state = "running"
    /\ UNCHANGED << storeVars, req, pc >>
    /\ LET out == conv[p].out
       IN  cache' = [ n \in DOMAIN cache \cup {out} |->
                        IF n # out THEN cache[n]
                        ELSE CacheFile(now,
                                 (IF InCache(out) THEN cache[out].writers ELSE {})
                                     \cup {p},
                                 IF InCache(out) THEN cache[out].torn ELSE FALSE,
                                 req[p].fid) ]
    /\ conv' = [conv EXCEPT ![p].state = "writing"]

\* the files p has open, closed; killed marks them as cut short
Closed(p, killed) ==
    [ n \in DOMAIN cache |->
        IF p \in cache[n].writers
        THEN CacheFile(now, cache[n].writers \ {p}, cache[n].torn \/ killed,
                       cache[n].of)
        ELSE cache[n] ]

\* the converter writes the last byte and closes its output
ConvFinish(p) ==
    /\ pc[p] = "wait" /\ conv[p].state = "writing"
    /\ UNCHANGED << storeVars, req, pc >>
    /\ cache' = Closed(p, FALSE)
    /\ conv' = [conv EXCEPT ![p].state = "written"]

\* the converter exits, with or without an output, and subprocess.run returns
ConvExit(p, returncode) ==
    /\ pc[p] = "wait" /\ conv[p].state \in {"running", "written"}
    /\ UNCHANGED << storeVars, cache >>
    /\ conv' = [conv EXCEPT ![p] = NoConv]
    /\ IF returncode = 0
       THEN /\ pc' = [pc EXCEPT ![p] = "locate"]
            /\ UNCHANGED req
       ELSE /\ pc' = [pc EXCEPT ![p] = "respond"]
            /\ req' = [req EXCEPT ![p] = Returned(req[p], NoString, cache)]

\* LIBREOFFICE_TIMEOUT passes: subprocess.run kills the converter and raises
ConvTimeout(p) ==
    /\ pc[p] = "wait" /\ conv[p].state \in {"running", "writing", "written"}
    /\ UNCHANGED storeVars
    /\ cache' = Closed(p, TRUE)
    /\ conv' = [conv EXCEPT ![p] = NoConv]
    /\ pc' = [pc EXCEPT ![p] = "respond"]
    /\ req' = [req EXCEPT ![p] = Returned(req[p], NoString, cache)]

\* os.replace(from, to) on the preview directory
Renamed(from, to) ==
    [ n \in (DOMAIN cache \ {from}) \cup {to} |->
        IF n = to THEN cache[from] ELSE cache[n] ]

\* get_or_generate_office_preview after a conversion that reported success;
\* replace_ok = FALSE is os.replace raising OSError
LocateOutput(p, replace_ok) ==
    /\ pc[p] = "locate"
    /\ UNCHANGED << storeVars, conv >>
    /\ pc' = [pc EXCEPT ![p] = "respond"]
    /\ LET target == req[p].target
           candidate == SrcCandidate(req[p].src)
           candidate2 == PreviewBase(files[req[p].fid]) \o Pdf
           found == IF InCache(candidate) THEN candidate ELSE candidate2
       IN  IF InCache(target)
           THEN /\ replace_ok
                /\ UNCHANGED cache
                /\ req' = [req EXCEPT ![p] = Returned(req[p], target, cache)]
           ELSE IF InCache(candidate) \/ InCache(candidate2)
           THEN IF replace_ok
                THEN /\ cache' = Renamed(found, target)
                     /\ req' = [req EXCEPT ![p] = Returned(req[p], target, cache')]
                ELSE /\ UNCHANGED cache
                     /\ req' = [req EXCEPT ![p] = Returned(req[p], found, cache)]
           ELSE /\ replace_ok
                /\ UNCHANGED cache
                /\ req' = [req EXCEPT ![p] = Returned(req[p], NoString, cache)]

\* preview_converted_file_raw after get_or_generate_office_preview: the
\* route's own search when no usable path came back, then send_file or 404
PreviewConvertedRespond(p) ==
    /\ pc[p] = "respond"
    /\ UNCHANGED << storeVars, cache, conv >>
    /\ pc' = [pc EXCEPT ![p] = "done"]
    /\ LET got == req[p].result
           candidate1 == PreviewBase(files[req[p].fid]) \o PreviewPdf
           candidate2 == PreviewBase(files[req[p].fid]) \o Pdf
           preview_path ==
               IF got # NoString /\ InCache(got) THEN got
               ELSE IF InCache(candidate1) THEN candidate1
               ELSE IF InCache(candidate2) THEN candidate2
               ELSE got
       IN  IF preview_path = NoString \/ ~InCache(preview_path)
           THEN req' = [req EXCEPT ![p].status = "404"]
           ELSE req' = [req EXCEPT ![p].status = "200",
                                   ![p].served = preview_path]

\* ------------------------------------------------------------------------
\* Specification of the file store: uploads, listing, download, raw preview,
\* soft delete, restore and visibility, through the routes and through
\* FileService
\* ------------------------------------------------------------------------
N_d_docx == <<"d", ".", "d", "o", "c", "x">>
V1 == <<"V", "1">>
AuthorZ == <<"z">>


Init ==
    /\ files = <<>>
    /\ logs = <<>>
    /\ disk = <<>>
    /\ now = 1
    /\ resp = NoResp
    /\ InitPreview

\* Viewers and uploaders of the access specification: customer, sales,
\* procurement, admin; the service's list is also called for user 6, whose
\* role is written with the alias of customer
Uploaders == {3, 4}
Viewers == {1, 2, 3, 4}

NextAccess ==
    \/ \E u \in Uploaders, ft \in {"contract", "drawing"}, pub \in BOOLEAN :
         SaveUploadedFile(u, N_d_docx, 1, ft, V1, pub, AuthorZ, "full")
    \/ \E u \in Viewers, fid \in 1..MaxFiles : DeleteFile(u, fid)
    \/ \E u \in Viewers \cup {6}, ft \in {"", "contract"},
          ip \in {"None", "True", "False"}, incl \in BOOLEAN, latest \in BOOLEAN :
         ListFilesForUser(u, ft, ip, incl, latest)
    \/ \E u \in Viewers, ft \in {"", "contract"}, ip \in {"None", "True", "False"},
          incl \in BOOLEAN, latest \in BOOLEAN :
         ManageFilesGet(u, ft, ip, incl, latest)
    \/ Respond

SpecAccess == Init /\ [][NextAccess]_vars

\* Specification of the operations that serve a record's bytes or its rendered
\* preview; the requests are taken one at a time, and the converter here
\* behaves: it writes <source base>.pdf and exits with 0
Quiet == \A p \in Callers : pc[p] = "idle"

NextServe ==
    \/ Quiet /\ \E u \in Uploaders, ft \in {"contract", "drawing"}, pub \in BOOLEAN :
         SaveUploadedFile(u, N_d_docx, 1, ft, V1, pub, AuthorZ, "full")
    \/ Quiet /\ \E u \in Viewers, fid \in 1..MaxFiles : DeleteFile(u, fid)
    \/ Quiet /\ \E u \in Viewers, fid \in 1..MaxFiles : GetFileForDownload(u, fid)
    \/ Quiet /\ \E u \in Viewers, fid \in 1..MaxFiles : DownloadFile(u, fid)
    \/ Quiet /\ \E u \in Viewers, fid \in 1..MaxFiles : PreviewFileRaw(u, fid)
    \/ Respond
    \/ Idle /\ \E u \in Viewers, fid \in 1..MaxFiles : PreviewConvertedStart(1, u, fid)
    \/ ConvStart(1, TRUE, SrcCandidate(req[1].src))
    \/ ConvWrite(1)
    \/ ConvFinish(1)
    \/ ConvExit(1, 0)
    \/ LocateOutput(1, TRUE)
    \/ PreviewConvertedRespond(1)
    \/ PreviewConvertedReturn(1)

SpecServe == Init /\ [][NextServe]_vars

\* Actors of the delete and visibility specifications: admin, sales,
\* procurement and a user whose role is written "Boss "
Actors == {1, 3, 4, 5}

NextDelete ==
    \/ \E u \in Uploaders, pub \in BOOLEAN :
         SaveUploadedFile(u, N_d_docx, 1, "contract", V1, pub, AuthorZ, "full")
    \/ \E u \in Actors, incl \in BOOLEAN :
         ListFilesForUser(u, "", "None", incl, FALSE)
    \/ \E u \in Actors, fid \in 1..MaxFiles : SoftDeleteFile(u, fid, TRUE)
    \/ \E u \in Actors, fid \in 1..MaxFiles : DeleteFile(u, fid)
    \/ \E u \in Actors, fid \in 1..MaxFiles : RestoreFileService(u, fid)
    \/ \E u \in Actors, fid \in 1..MaxFiles : RestoreFile(u, fid)
    \/ Respond

SpecDelete == Init /\ [][NextDelete]_vars

NextVisibility ==
    \/ \E u \in Uploaders, pub \in BOOLEAN :
         SaveUploadedFile(u, N_d_docx, 1, "contract", V1, pub, AuthorZ, "full")
    \/ \E u \in Actors, fid \in 1..MaxFiles, pub \in BOOLEAN :
         SetPublicService(u, fid, pub)
    \/ \E u \in Actors, fid \in 1..MaxFiles, pub \in BOOLEAN :
         SetPublic(u, fid, pub)
    \/ Respond

SpecVisibility == Init /\ [][NextVisibility]_vars

\* ------------------------------------------------------------------------
\* Specification of the preview renderer: one office file is uploaded and
\* each caller requests its converted preview once, at any moment
\* ------------------------------------------------------------------------
NextPreview ==
    \/ /\ Len(files) = 0
       /\ SaveUploadedFile(3, N_d_docx, 1, "tech", V1, TRUE, AuthorZ, "full")
    \/ Respond
    \/ \E p \in Callers :
         pc[p] = "idle" /\ Len(files) > 0 /\ PreviewConvertedStart(p, 1, 1)
    \/ \E p \in Callers : ConvStart(p, FALSE, <<>>)
    \/ \E p \in Callers : \E out \in OutNames(req[p]) : ConvStart(p, TRUE, out)
    \/ \E p \in Callers : ConvWrite(p)
    \/ \E p \in Callers : ConvFinish(p)
    \/ \E p \in Callers, rc \in {0, 1} : ConvExit(p, rc)
    \/ \E p \in Callers : ConvTimeout(p)
    \/ \E p \in Callers, ok \in BOOLEAN : LocateOutput(p, ok)
    \/ \E p \in Callers : PreviewConvertedRespond(p)

SpecPreview == Init /\ [][NextPreview]_vars

\* ------------------------------------------------------------------------
\* Specification of the latest-version list: records of two names, two
\* categories and two version labels are uploaded, the administrator deletes
\* some, and the administrator and a customer list them
\* ------------------------------------------------------------------------
N_e_docx == <<"e", ".", "d", "o", "c", "x">>
V2 == <<"V", "2">>

NextLatest ==
    \/ \E fn \in {N_d_docx, N_e_docx}, ft \in {"contract", "drawing"}, v \in {V1, V2} :
         SaveUploadedFile(4, fn, 1, ft, v, TRUE, AuthorZ, "full")
    \/ \E fid \in 1..MaxFiles : DeleteFile(1, fid)
    \/ \E u \in {1, 2}, incl \in BOOLEAN, latest \in BOOLEAN :
         ListFilesForUser(u, "", "None", incl, latest)
    \/ \E u \in {1, 2}, incl \in BOOLEAN :
         ManageFilesGet(u, "", "None", incl, TRUE)
    \/ Respond

SpecLatest == Init /\ [][NextLatest]_vars

\* ------------------------------------------------------------------------
\* Specification of the read path: the rows are historical ones, their bytes
\* lie in any of the three layouts get_file_path knows (or in none), and the
\* path of a row is resolved for a contract with or without a project code
\* ------------------------------------------------------------------------
NoCodeContract == [TheContract EXCEPT !.project_code = <<>>]
Contracts == {TheContract, NoCodeContract}

LegacyStored ==
    << <<"a", ".", "p", "d", "f">>, <<"b", ".", "p", "d", "f">>,
       <<"c", ".", "p", "d", "f">> >>

LegacyRow(i) ==
    [id |-> i,
     contract_id |-> TheContract.id,
     uploader_id |-> 3,
     file_type |-> "contract",
     version |-> V1,
     author |-> AuthorZ,
     original_filename |-> LegacyStored[i],
     stored_filename |-> LegacyStored[i],
     is_public |-> FALSE,
     owner_role |-> RoleOf(3),
     is_deleted |-> FALSE,
     created_at |-> 0]

LegacyPaths ==
    { << d, LegacyStored[i] >> :
        d \in {get_project_dir_name(TheContract), TheContract.id, <<>>},
        i \in 1..MaxFiles }

InitResolve ==
    /\ files = [i \in 1..MaxFiles |-> LegacyRow(i)]
    /\ logs = <<>>
    /\ disk \in { [p \in S |-> [bytes |-> 1, mtime |-> 0]] : S \in SUBSET LegacyPaths }
    /\ now = 1
    /\ resp = NoResp
    /\ InitPreview

\* file_service.get_file_path(contract, pf), as the routes call it
GetFilePath(contract, fid) ==
    /\ Idle
    /\ HasRow(fid)
    /\ resp' = Resp("resolve", 0, fid,
                    [contract |-> contract,
                     path |-> get_file_path(contract, files[fid])],
                    "ok", <<>>)
    /\ UNCHANGED << files, logs, disk, now >>
    /\ UNCHANGED previewVars

NextResolve ==
    \/ \E c \in Contracts, fid \in 1..MaxFiles : GetFilePath(c, fid)
    \/ Respond

SpecResolve == InitResolve /\ [][NextResolve]_vars

\* ------------------------------------------------------------------------
\* Specification of ingest: a sales user and a user whose role is not in the
\* table upload files with and without an allowed extension, into categories
\* they may and may not use, alone and in batches, and the write may fail
\* ------------------------------------------------------------------------
N_d_dwg == <<"d", ".", "d", "w", "g">>
N_d == <<"d">>
Item(filename, saved) == [filename |-> filename, bytes |-> 1, saved |-> saved]

Batches ==
    { << Item(N_d_docx, "full"), Item(<<>>, "full"), Item(N_d, "full") >>,
      << Item(N_d_docx, "full"), Item(N_d_docx, "partial") >>,
      << Item(N_d, "full"), Item(N_d_docx, "full") >>,
      << >> }

NextIngest ==
    \/ \E u \in {3, 6}, fn \in {N_d_docx, N_d_dwg, N_d},
          ft \in {"contract", "drawing", "bogus"} :
         SaveUploadedFile(u, fn, 1, ft, V1, TRUE, AuthorZ, "full")
    \/ \E saved \in {"none", "partial"} :
         SaveUploadedFile(6, N_d_docx, 1, "contract", V1, TRUE, AuthorZ, saved)
    \/ \E u \in {3, 6}, items \in Batches, ft \in {"contract", ""} :
         ManageFilesPost(u, items, ft, <<" ">>, TRUE, <<>>)
    \/ Respond

SpecIngest == Init /\ [][NextIngest]_vars

\* ------------------------------------------------------------------------
\* Specification of the stored bytes: one user uploads files of one name with
\* different contents, the administrator deletes, restores and publishes
\* them, and their paths are resolved
\* ------------------------------------------------------------------------
NextBytes ==
    \/ \E b \in {1, 2}, saved \in WriteOutcomes :
         SaveUploadedFile(4, N_d_docx, b, "contract", V1, FALSE, AuthorZ, saved)
    \/ \E fid \in 1..MaxFiles : DeleteFile(1, fid)
    \/ \E fid \in 1..MaxFiles : RestoreFile(1, fid)
    \/ \E fid \in 1..MaxFiles, pub \in BOOLEAN : SetPublic(1, fid, pub)
    \/ \E fid \in 1..MaxFiles : GetFilePath(TheContract, fid)
    \/ Respond

SpecBytes == Init /\ [][NextBytes]_vars

\* ------------------------------------------------------------------------
\* logs.py: the pages of the operation log
\* ------------------------------------------------------------------------
\* auth.py INTERNAL_ROLES, tested by staff_required against user.role as stored
INTERNAL_ROLES ==
    { R_boss, R_software_engineer, R_sales,
      <<"e", "l", "e", "c", "t", "r", "i", "c", "a", "l", "_",
        "e", "n", "g", "i", "n", "e", "e", "r">>,
      <<"m", "e", "c", "h", "a", "n", "i", "c", "a", "l", "_",
        "e", "n", "g", "i", "n", "e", "e", "r">>,
      <<"s", "e", "r", "v", "i", "c", "e">>,
      <<"p", "r", "o", "c", "u", "r", "e", "m", "e", "n", "t", "s">>,
      <<"f", "i", "n", "a", "n", "c", "e">> }

\* OBJECT_TYPE_LABELS.get(t, t), for the object types of the file store
OBJECT_TYPE_LABELS(t) ==
    CASE t = "file" -> <<"U+6587", "U+4EF6">>
      [] t = "contract" -> <<"U+5408", "U+540C">>
      [] OTHER -> <<t>>

\* ACTION_LABELS.get(a, a): download and restore have no label
ACTION_LABELS(a) ==
    CASE a = "update" -> <<"U+4FEE", "U+6539">>
      [] a = "delete" -> <<"U+5220", "U+9664">>
      [] a = "upload" -> <<"U+4E0A", "U+4F20">>
      [] OTHER -> <<a>>

\* _build_detail_display: with old and new, one piece per key whose values
\* differ (dict.get gives None, here <<>>, for a key one side lacks), else one
\* piece per key of the side that is there; the pieces are kept per key, the
\* code joins them into one string
build_detail_display(log) ==
    LET d == log.detail
        Get(side, k) == IF k \in DOMAIN d[side] THEN << d[side][k] >> ELSE <<>>
    IN  IF d = None THEN <<>>
        ELSE IF "old" \in DOMAIN d /\ "new" \in DOMAIN d
        THEN [k \in { k \in DOMAIN d["old"] \cup DOMAIN d["new"] :
                        Get("old", k) # Get("new", k) }
                |-> [old |-> Get("old", k), new |-> Get("new", k)]]
        ELSE IF "new" \in DOMAIN d
        THEN [k \in DOMAIN d["new"] |-> [new |-> Get("new", k)]]
        ELSE [k \in DOMAIN d["old"] |-> [old |-> Get("old", k)]]

\* _enrich_logs: three attributes are set on the loaded rows; they are no
\* columns and nothing is committed
enrich_logs(rows) ==
    [i \in 1..Len(rows) |->
        [object_type_label |-> OBJECT_TYPE_LABELS(rows[i].object_type),
         action_label |-> ACTION_LABELS(rows[i].action),
         detail_display |-> build_detail_display(rows[i])] @@ rows[i]]

LOGS_LIMIT == 200

\* contract_logs -> _render_logs_page(contract), with the filters object_type
\* and action of the query string ("" is no filter); rows are created in the
\* order of created_at
RenderLogsPage(u, object_type, action) ==
    LET Matches(l) ==
            /\ l.contract_id = TheContract.id
            /\ object_type # "" => l.object_type = object_type
            /\ action # "" => l.action = action
        rows == SelectSeq(logs, Matches)
        desc == [i \in 1..Len(rows) |-> rows[Len(rows) + 1 - i]]
        page == SubSeq(desc, 1, IF Len(desc) < LOGS_LIMIT THEN Len(desc)
                                ELSE LOGS_LIMIT)
        arg == [object_type |-> object_type, action |-> action]
    IN  /\ Idle
        /\ UNCHANGED << files, logs, disk, now >>
        /\ UNCHANGED previewVars
        /\ IF RoleOf(u) \notin INTERNAL_ROLES
           THEN resp' = Resp("logs", u, 0, arg, "403", <<>>)
           ELSE resp' = Resp("logs", u, 0, arg, "200", enrich_logs(page))

\* ------------------------------------------------------------------------
\* Specification of the operation log: a sales user uploads and reads the
\* log, the administrator deletes, restores, publishes and downloads the
\* records, through the routes and through the service
\* ------------------------------------------------------------------------
NextAudit ==
    \/ SaveUploadedFile(3, N_d_docx, 1, "contract", V1, TRUE, AuthorZ, "full")
    \/ \E fid \in 1..MaxFiles : SoftDeleteFile(1, fid, TRUE)
    \/ \E fid \in 1..MaxFiles : DeleteFile(1, fid)
    \/ \E fid \in 1..MaxFiles : RestoreFileService(1, fid)
    \/ \E fid \in 1..MaxFiles : RestoreFile(1, fid)
    \/ \E fid \in 1..MaxFiles, pub \in BOOLEAN : SetPublicService(1, fid, pub)
    \/ \E fid \in 1..MaxFiles, pub \in BOOLEAN : SetPublic(1, fid, pub)
    \/ \E fid \in 1..MaxFiles : DownloadFile(1, fid)
    \/ \E u \in {1, 3}, ot \in {"", "file"}, a \in {"", "delete"} :
         RenderLogsPage(u, ot, a)
    \/ Respond

SpecAudit == Init /\ [][NextAudit]_vars

\* ------------------------------------------------------------------------
\* Specification of the preview cache: a sales user uploads d.docx as
\* contract and d.xlsx as tech, time passes, and the previews
\* are requested one request at a time; the converter may fail to start,
\* fail, time out, write nothing, or write under any of the names looked for
\* ------------------------------------------------------------------------
N_d_xlsx == <<"d", ".", "x", "l", "s", "x">>

\* time passes between two operations (utcnow, os.path.getmtime)
Tick ==
    /\ now < MaxNow
    /\ now' = now + 1
    /\ UNCHANGED << files, logs, disk, resp >>
    /\ UNCHANGED previewVars

NextCache ==
    \/ Quiet /\ \E fn \in {N_d_docx, N_d_xlsx} :
         SaveUploadedFile(3, fn, 1, IF fn = N_d_xlsx THEN "tech" ELSE "contract",
                          V1, TRUE, AuthorZ, "full")
    \/ Respond
    \/ Quiet /\ Idle /\ Tick
    \/ Idle /\ \E fid \in 1..MaxFiles : PreviewConvertedStart(1, 3, fid)
    \/ ConvStart(1, FALSE, <<>>)
    \/ \E out \in OutNames(req[1]) : ConvStart(1, TRUE, out)
    \/ ConvWrite(1)
    \/ ConvFinish(1)
    \/ \E rc \in {0, 1} : ConvExit(1, rc)
    \/ ConvTimeout(1)
    \/ \E ok \in BOOLEAN : LocateOutput(1, ok)
    \/ PreviewConvertedRespond(1)
    \/ PreviewConvertedReturn(1)

SpecCache == Init /\ [][NextCache]_vars

\* ------------------------------------------------------------------------
\* Specification of one rendering after the other: a sales user uploads
\* d.docx and d.pdf as contract and requests their previews, with a converter
\* that may fail in every way
\* ------------------------------------------------------------------------
NextRender ==
    \/ Quiet /\ \E fn \in {N_d_docx, <<"d", ".", "p", "d", "f">>} :
         SaveUploadedFile(3, fn, 1, "contract", V1, TRUE, AuthorZ, "full")
    \/ Respond
    \/ Idle /\ \E fid \in 1..MaxFiles : PreviewConvertedStart(1, 3, fid)
    \/ ConvStart(1, FALSE, <<>>)
    \/ \E out \in OutNames(req[1]) : ConvStart(1, TRUE, out)
    \/ ConvWrite(1)
    \/ ConvFinish(1)
    \/ \E rc \in {0, 1} : ConvExit(1, rc)
    \/ ConvTimeout(1)
    \/ \E ok \in BOOLEAN : LocateOutput(1, ok)
    \/ PreviewConvertedRespond(1)
    \/ PreviewConvertedReturn(1)

SpecRender == Init /\ [][NextRender]_vars

\* ------------------------------------------------------------------------
\* Specification of the stored names: generate_file_name is called for
\* contracts, versions, authors and file names with empty fields, unsafe
\* characters and a field longer than the limit
\* ------------------------------------------------------------------------
GenerateFileName(contract, file_type, version, author, original_filename) ==
    /\ Idle
    /\ resp' = Resp("name", 0, 0,
                    [contract |-> contract, file_type |-> file_type,
                     version |-> version, author |-> author,
                     original_filename |-> original_filename],
                    "ok",
                    generate_file_name(contract, file_type, version, author,
                                       original_filename))
    /\ UNCHANGED << files, logs, disk, now >>
    /\ UNCHANGED previewVars

NextName ==
    \/ \E contract \in
            { TheContract, NoCodeContract,
              [TheContract EXCEPT !.company = <<"?">>, !.project_code = <<"*">>,
                                  !.contract_number = <<>>, !.name = <<"|">>] },
          file_type \in {"contract", "ticket"},
          version \in { V1, <<>>, <<"/">>, <<"V", " ", "2">> },
          author \in { AuthorZ, <<>>, <<":">>,
                       [i \in 1..(MaxBaseLen + 20) |-> "a"] },
          original_filename \in
            { N_d_docx, N_d, <<"?", ".", "d", "o", "c", "x">>,
              <<".", "d", "o", "c", "x">>, <<"d", ".", "p", " ", "d">> } :
         GenerateFileName(contract, file_type, version, author, original_filename)
    \/ Respond

SpecName == Init /\ [][NextName]_vars

\* ------------------------------------------------------------------------
\* Concurrent requests to the routes delete_file, restore_file and
\* set_public: each request loads the row and takes its snapshot, commits
\* the flag, and commits the operation log row, in three transactions
\* ------------------------------------------------------------------------
\* the row is loaded, the permission is checked and old_data is taken from
\* the loaded row; a refused request changes nothing
RouteLoad(p, op, u, fid, is_public) ==
    /\ pc[p] = "idle"
    /\ UNCHANGED storeVars
    /\ UNCHANGED << cache, conv >>
    /\ IF /\ IF op = "restore" THEN HasRow(fid) ELSE HasLiveRow(fid)
          /\ CASE op = "delete" -> MayDelete(u, files[fid])
               [] op = "restore" -> MayRestore(u) /\ files[fid].is_deleted
               [] OTHER -> MaySetPublic(u)
       THEN /\ pc' = [pc EXCEPT ![p] = "loaded"]
            /\ req' = [req EXCEPT ![p] =
                 [op |-> op, actor |-> u, fid |-> fid,
                  old_data |->
                    CASE op = "delete" ->
                           [file_type |-> files[fid].file_type,
                            version |-> files[fid].version,
                            original_filename |-> files[fid].original_filename,
                            stored_filename |-> files[fid].stored_filename,
                            is_public |-> files[fid].is_public,
                            is_deleted |-> files[fid].is_deleted]
                      [] op = "restore" ->
                           [is_deleted |-> files[fid].is_deleted]
                      [] OTHER -> [is_public |-> files[fid].is_public],
                  new_data |->
                    CASE op = "delete" -> [is_deleted |-> TRUE]
                      [] op = "restore" -> [is_deleted |-> FALSE]
                      [] OTHER -> [is_public |-> is_public]]]
       ELSE UNCHANGED << pc, req >>

\* the flag is set on the loaded row and the session commits; an attribute
\* set to the value it was loaded with is not written
RouteCommit(p) ==
    /\ pc[p] = "loaded"
    /\ pc' = [pc EXCEPT ![p] = "committed"]
    /\ UNCHANGED << logs, disk, now, resp, cache, req, conv >>
    /\ LET field == CHOOSE k \in DOMAIN req[p].new_data : TRUE
       IN files' = IF req[p].old_data[field] = req[p].new_data[field]
                   THEN files
                   ELSE SetField(req[p].fid, field, req[p].new_data[field])

\* log_operation with the snapshot taken when the row was loaded
RouteLog(p) ==
    /\ pc[p] = "committed"
    /\ Len(logs) < MaxLogs
    /\ logs' = log_operation(logs, req[p].actor, req[p].fid,
                   CASE req[p].op = "delete" -> ACTION_DELETE
                     [] req[p].op = "restore" -> ACTION_RESTORE
                     [] OTHER -> ACTION_UPDATE,
                   req[p].old_data, req[p].new_data, RemoteAddr)
    /\ pc' = [pc EXCEPT ![p] = "idle"]
    /\ req' = [req EXCEPT ![p] = NoReq]
    /\ UNCHANGED << files, disk, now, resp, cache, conv >>

\* a sales user uploads one record; the administrator's requests on it run
\* concurrently, and the service deletes it with or without its log row
NextRace ==
    \/ Quiet /\ SaveUploadedFile(3, N_d_docx, 1, "contract", V1, FALSE,
                                 AuthorZ, "full")
    \/ Respond
    \/ \E p \in Callers, op \in {"delete", "restore", "set_public"},
          is_public \in BOOLEAN : Idle /\ RouteLoad(p, op, 1, 1, is_public)
    \/ \E p \in Callers : RouteCommit(p)
    \/ \E p \in Callers : RouteLog(p)
    \/ \E logged \in BOOLEAN : Quiet /\ SoftDeleteFile(1, 1, logged)

SpecRace == Init /\ [][NextRace]_vars

\* ------------------------------------------------------------------------
\* Properties
\* ------------------------------------------------------------------------
\* a call of op was made in this step
Called(op) == resp = NoResp /\ resp'.op = op
LastLog(lg) == lg[Len(lg)]
Succeeded(r) == r.status \in {"ok", "200"}
PermissionRefused(r) == r.status \in {"PermissionError", "denied", "403"}

\* C1: calls of getOrRender for one cache key, the later one issued while the
\* earlier one had missed the cache and its conversion had not come back, start
\* the converter at most once between them and return the same result.
C1_OneConversionPerKey ==
    \A p \in Callers : \A q \in Callers \ {p} :
        ( /\ q \in req[p].overlap /\ p \in req[q].overlap
          /\ req[p].target = req[q].target )
        => /\ ~(req[p].invoked /\ req[q].invoked)
           /\ ( pc[p] \in {"respond", "done"} /\ pc[q] \in {"respond", "done"}
                => req[p].result = req[q].result )

\* C2: no call of getOrRender returns the path of a file that a converter
\* process still has open for writing.
C2_NoPartialPreview ==
    \A p \in Callers : req[p].result # NoString => ~req[p].writing

\* C3: a list made for a viewer of role customer holds no record that is not
\* public, none outside the categories contract and tech, and no deleted one,
\* whatever filters the call was given.
C3_CustomerListFiltered ==
    (resp.op = "list" /\ RoleOf(resp.actor) = R_customer)
    => \A k \in 1..Len(resp.body) :
          /\ files[resp.body[k]].is_public
          /\ files[resp.body[k]].file_type \in {"contract", "tech"}
          /\ ~files[resp.body[k]].is_deleted

\* C4: a download requested by a viewer of role customer is permitted exactly
\* when the record is public, of category contract or tech, and not deleted,
\* whatever its owner role.
CustomerSet(f) ==
    f.is_public /\ f.file_type \in {"contract", "tech"} /\ ~f.is_deleted

C4_CustomerDownloadSet ==
    (resp.op = "download" /\ RoleOf(resp.actor) = R_customer /\ HasRow(resp.fid))
    => (Succeeded(resp) <=> CustomerSet(files[resp.fid]))

\* C5: for a viewer whose role is neither elevated nor customer, download, raw
\* preview and converted preview of a record whose owner role is set and is
\* not the viewer's role are refused.
PlainViewer(u) == normalize_role(RoleOf(u)) \notin Elevated \cup {R_customer}
OwnedByOther(u, f) == f.owner_role # <<>> /\ f.owner_role # RoleOf(u)

C5_OwnerRoleEnforced ==
    /\ ( /\ resp.op \in {"download", "preview_raw"}
         /\ HasRow(resp.fid)
         /\ PlainViewer(resp.actor)
         /\ OwnedByOther(resp.actor, files[resp.fid]) )
       => ~Succeeded(resp)
    /\ \A p \in Callers :
         ( /\ req[p].viewer # 0
           /\ HasRow(req[p].fid)
           /\ PlainViewer(req[p].viewer)
           /\ OwnedByOther(req[p].viewer, files[req[p].fid]) )
         => req[p].status \in {"403", "404"}

\* C6: is_deleted changes only in a softDelete called by the uploader or an
\* elevated role (to true) or in a restore called by an elevated role (to
\* false); any other softDelete or restore of a record ends in a permission
\* error with the records and the audit log as they were.
MayDeleteByClaim(u, f) ==
    u = f.uploader_id \/ normalize_role(RoleOf(u)) \in Elevated
MayRestoreByClaim(u) == normalize_role(RoleOf(u)) \in Elevated

C6_DeletedFlagGuarded ==
    [][ /\ \A fid \in FileIds :
             files'[fid].is_deleted # files[fid].is_deleted
             => /\ resp'.fid = fid
                /\ IF files'[fid].is_deleted
                   THEN Called("delete") /\ MayDeleteByClaim(resp'.actor, files[fid])
                   ELSE Called("restore") /\ MayRestoreByClaim(resp'.actor)
        /\ ( /\ Called("delete") /\ HasLiveRow(resp'.fid)
             /\ ~MayDeleteByClaim(resp'.actor, files[resp'.fid]) )
           => PermissionRefused(resp') /\ files' = files /\ logs' = logs
        /\ ( /\ Called("restore") /\ HasRow(resp'.fid)
             /\ ~MayRestoreByClaim(resp'.actor) )
           => PermissionRefused(resp') /\ files' = files /\ logs' = logs
      ]_vars

\* C7: is_public changes only in a setVisibility call of an actor whose role
\* is admin, boss or sales; a call of any other role changes no record and
\* appends no audit entry, and on a record the entry point has found it ends
\* in a permission error.
VisibilityRole(u) == StripLower(RoleOf(u)) \in {R_admin, R_boss, R_sales}

C8_RestoreNoOp ==
    [][ ( /\ Called("restore") /\ HasRow(resp'.fid)
          /\ ~files[resp'.fid].is_deleted )
        => files' = files /\ logs' = logs
      ]_vars

\* C9: a setVisibility call that succeeds appends one audit entry whose old
\* is_public is the record's value before the call and whose new is_public is
\* the requested value.
C9_VisibilityAudit ==
    [][ (Called("set_public") /\ resp'.status = "ok")
        => /\ Len(logs') = Len(logs) + 1
           /\ LastLog(logs').object_id = resp'.fid
           /\ LastLog(logs').detail # None
           /\ DOMAIN LastLog(logs').detail = {"old", "new"}
           /\ LastLog(logs').detail.old.is_public = files[resp'.fid].is_public
           /\ LastLog(logs').detail.new.is_public = resp'.arg.is_public
      ]_vars

\* C10: after a softDelete a list without deleted records omits the record and
\* a list with them shows it as deleted; the softDelete appends one delete
\* entry with old is_deleted false and new true, and the restore that follows
\* one restore entry with old true and new false.
HasChange(entry, fid, action, from, to) ==
    /\ entry.object_type = OBJECT_TYPE_FILE
    /\ entry.object_id = fid
    /\ entry.action = action
    /\ entry.detail # None
    /\ DOMAIN entry.detail = {"old", "new"}
    /\ "is_deleted" \in DOMAIN entry.detail.old
    /\ entry.detail.old.is_deleted = from
    /\ entry.detail.new.is_deleted = to

C10_DeleteRestoreScenario ==
    [][ /\ Called("list")
           => \A fid \in FileIds :
                 files[fid].is_deleted
                 => ( (\E k \in 1..Len(resp'.body) : resp'.body[k] = fid)
                      <=> resp'.arg.include_deleted )
        /\ ( /\ Called("delete") /\ resp'.status = "ok"
             /\ ~files[resp'.fid].is_deleted )
           => /\ files'[resp'.fid].is_deleted
              /\ Len(logs') = Len(logs) + 1
              /\ HasChange(LastLog(logs'), resp'.fid, ACTION_DELETE, FALSE, TRUE)
        /\ ( /\ Called("restore") /\ resp'.status = "ok"
             /\ files[resp'.fid].is_deleted )
           => /\ ~files'[resp'.fid].is_deleted
              /\ Len(logs') = Len(logs) + 1
              /\ HasChange(LastLog(logs'), resp'.fid, ACTION_RESTORE, TRUE, FALSE)
      ]_vars

\* C11: a list with latest_only holds, of the records that pass the other
\* filters, exactly one per (file_type, original_filename) group, and no
\* passing record of the group was created later than the one listed; the
\* version label does not enter the choice.
Elements(seq) == { seq[k] : k \in 1..Len(seq) }
SameGroup(f, g) ==
    f.file_type = g.file_type /\ f.original_filename = g.original_filename
Passing(r) ==
    Elements(list_files_for_user(r.actor, r.arg.file_type, r.arg.is_public,
                                 r.arg.include_deleted, FALSE))

C11_LatestOnly ==
    (resp.op = "list" /\ resp.arg.latest_only)
    => /\ Elements(resp.body) \subseteq Passing(resp)
       /\ \A j, k \in 1..Len(resp.body) :
             j # k => ~SameGroup(files[resp.body[j]], files[resp.body[k]])
       /\ \A i \in Passing(resp) :
             \E k \in Elements(resp.body) :
                /\ SameGroup(files[i], files[k])
                /\ files[k].created_at >= files[i].created_at

\* two records of one group pass the filters, the older labelled V2 and the
\* newer V1, and the list holds the newer one alone
C11_Witness ==
    /\ resp.op = "list" /\ resp.arg.latest_only
    /\ Len(files) >= 2
    /\ SameGroup(files[1], files[2])
    /\ files[1].version = V2 /\ files[2].version = V1
    /\ {1, 2} \subseteq Passing(resp)
    /\ resp.body = <<2>>

\* C12: get_file_path returns the first path that exists among the project
\* directory, the per-id directory and the flat layout, in this order, and the
\* project-directory path when none exists.
Candidates(contract, pf) ==
    << << get_project_dir_name(contract), pf.stored_filename >>,
       << contract.id, pf.stored_filename >>,
       << <<>>, pf.stored_filename >> >>

FirstExisting(cands, default) ==
    IF \E k \in 1..3 : Exists(cands[k])
    THEN cands[CHOOSE k \in 1..3 :
                  Exists(cands[k]) /\ \A j \in 1..(k - 1) : ~Exists(cands[j])]
    ELSE default

C12_ResolveReadPath ==
    resp.op = "resolve"
    => LET cands == Candidates(resp.arg.contract, files[resp.fid])
       IN  resp.arg.path = FirstExisting(cands, cands[1])

\* C12, amended: as above, but when none of the three paths exists the path
\* returned is the flat one.
C12_ResolveReadPathFlat ==
    resp.op = "resolve"
    => LET cands == Candidates(resp.arg.contract, files[resp.fid])
       IN  resp.arg.path = FirstExisting(cands, cands[3])

\* a row whose bytes are in none of the three places has been resolved to the
\* flat path, which is not the project-directory path
C12_Witness ==
    /\ resp.op = "resolve"
    /\ LET cands == Candidates(resp.arg.contract, files[resp.fid])
       IN  /\ \A k \in 1..3 : ~Exists(cands[k])
           /\ resp.arg.path = cands[3]
           /\ cands[3] # cands[1]

\* C13: the path resolved for a record an ingest has just returned holds the
\* bytes that were uploaded, and no later ingest, softDelete, restore or
\* setVisibility changes or removes the bytes at the path resolved for any
\* record.
ResolvedBytes(fid) ==
    LET path == get_file_path(TheContract, files[fid])
    IN  IF Exists(path) THEN <<disk[path].bytes>> ELSE <<>>

C13_BytesKept ==
    [][ /\ (Called("upload") /\ resp'.status = "ok")
           => ResolvedBytes(resp.fid)' = <<resp'.arg.bytes>>
        /\ \A fid \in FileIds :
             /\ ResolvedBytes(fid) # <<>>
             /\ ResolvedBytes(fid)' = ResolvedBytes(fid)
      ]_vars

\* C14: no two records of one directory have the same stored_filename (every
\* record of the contract is stored in the contract's one directory).
C14_StoredNameUnique ==
    \A i \in FileIds : \A j \in FileIds \ {i} :
        files[i].stored_filename # files[j].stored_filename

\* C15: every committed row has bytes at the path its ingest wrote to, and an
\* ingest whose write fails commits no row and appends no audit entry.
WritePath(pf) == << get_project_dir_name(TheContract), pf.stored_filename >>
RowsHaveBytes == \A fid \in FileIds : Exists(WritePath(files[fid]))

C15_WriteBeforeCommit ==
    [][ /\ RowsHaveBytes'
        /\ (Called("upload") /\ resp'.status = "OSError")
           => files' = files /\ logs' = logs
      ]_vars

\* the write of an upload that passed both checks has failed, while a row of
\* an earlier upload is there with its bytes
C15_Witness ==
    /\ resp.op = "upload" /\ resp.status = "OSError"
    /\ Len(files) = 1 /\ Len(logs) = 1
    /\ Exists(WritePath(files[1]))

\* C16: an ingest of a file name without extension, or with an extension that
\* is not in the list of its file type (DRAWING_EXTENSIONS for drawing,
\* ALLOWED_EXTENSIONS otherwise), ends in a ValueError with no bytes written,
\* no row created and no audit entry appended.
BadExtension(filename, file_type) ==
    \/ ~HasDot(filename)
    \/ /\ file_type = "drawing"
       /\ ExtOf(filename) \notin DRAWING_EXTENSIONS
    \/ /\ file_type # "drawing"
       /\ ExtOf(filename) \notin ALLOWED_EXTENSIONS

C16_ExtensionValidated ==
    [][ ( /\ Called("upload")
          /\ BadExtension(resp'.arg.filename, resp'.arg.file_type) )
        => /\ resp'.status = "ValueError"
           /\ files' = files /\ logs' = logs /\ disk' = disk
      ]_vars

\* a file with a drawing-only extension has just been refused for the file
\* type contract, and nothing was stored
C16_Witness ==
    /\ resp.op = "upload" /\ resp.status = "ValueError"
    /\ resp.arg.filename = N_d_dwg /\ resp.arg.file_type = "contract"
    /\ files = <<>> /\ logs = <<>> /\ disk = <<>>

\* C17: an ingest succeeds only with a file type the uploader's role may use
\* (the default set for a role outside the table); a pairing that is not
\* allowed ends in a PermissionError, a file type that is no file type at all
\* in a ValueError, both with the store as it was.
ValidTypes == {"contract", "tech", "drawing", "invoice", "ticket"}
ClaimedTypes(u) == ROLE_ALLOWED_TYPES(StripLower(RoleOf(u)))

C17_RoleCategory ==
    [][ Called("upload")
        => /\ resp'.status = "ok"
              => resp'.arg.file_type \in ClaimedTypes(resp'.actor)
           /\ ( /\ resp'.arg.file_type \in ValidTypes
                /\ resp'.arg.file_type \notin ClaimedTypes(resp'.actor)
                /\ ~BadExtension(resp'.arg.filename, resp'.arg.file_type) )
              => /\ resp'.status = "PermissionError"
                 /\ files' = files /\ logs' = logs /\ disk' = disk
           /\ resp'.arg.file_type \notin ValidTypes
              => /\ resp'.status = "ValueError"
                 /\ files' = files /\ logs' = logs /\ disk' = disk
      ]_vars

\* C18: a batch upload skips the files without a name and saves the others in
\* order; when one of them fails the rows saved before it stay, and the caller
\* is given the failure and the number of files saved.
NamedCount(names) == Cardinality({ k \in 1..Len(names) : names[k] # <<>> })

C18_BatchPartial ==
    [][ (Called("upload_batch") /\ resp'.status # "rejected")
        => /\ SubSeq(files', 1, Len(files)) = files
           /\ SubSeq(logs', 1, Len(logs)) = logs
           /\ resp'.status = "ok"
              => /\ Len(files') = Len(files) + NamedCount(resp'.arg.names)
                 /\ resp'.body = [k \in 1..Len(resp'.body) |-> Len(files) + k]
           /\ resp'.arg.reported = << Len(files') - Len(files) >>
      ]_vars

\* C19: the operation log only grows: every step of an upload, download,
\* delete, restore, set_public, list or log page keeps every entry there was,
\* in its place and with all its attributes.
C19_AppendOnly ==
    [][ /\ Len(logs') >= Len(logs)
        /\ SubSeq(logs', 1, Len(logs)) = logs
      ]_vars

\* the log page has just shown, enriched, the three entries of an upload, a
\* delete and a restore, which are still in the log
C19_Witness ==
    /\ resp.op = "logs" /\ resp.status = "200" /\ Len(resp.body) = 3
    /\ Len(logs) = 3
    /\ logs[1].action = ACTION_UPLOAD
    /\ logs[2].action = ACTION_DELETE
    /\ logs[3].action = ACTION_RESTORE

\* C20: every successful upload, delete, restore of a deleted record and
\* set_public has appended exactly one entry to the operation log, for the
\* record it acted on, with object type file and the action upload, delete,
\* restore and update respectively.
AuditAction(op) ==
    CASE op = "upload" -> ACTION_UPLOAD
      [] op = "delete" -> ACTION_DELETE
      [] op = "restore" -> ACTION_RESTORE
      [] op = "set_public" -> ACTION_UPDATE

C20_OneEntryPerMutation ==
    [][ \A op \in {"upload", "delete", "restore", "set_public"} :
          ( /\ Called(op)
            /\ resp'.status = "ok"
            /\ op = "restore" => files[resp'.fid].is_deleted )
          => /\ logs' = Append(logs, LastLog(logs'))
             /\ LastLog(logs').object_type = OBJECT_TYPE_FILE
             /\ LastLog(logs').object_id = resp'.fid
             /\ LastLog(logs').action = AuditAction(op)
      ]_vars

\* a deleted record has just been restored and the log, which held the
\* entries of its upload and its delete, has one entry more
C20_Witness ==
    /\ resp.op = "restore" /\ resp.status = "ok"
    /\ Len(logs) = 3
    /\ logs[2].action = ACTION_DELETE /\ logs[2].object_id = resp.fid
    /\ logs[3].action = ACTION_RESTORE /\ logs[3].object_id = resp.fid
    /\ ~files[resp.fid].is_deleted

\* C21: when a call of get_or_generate_office_preview has returned a path and
\* the next call is made for the same record, with no upload in between, the
\* next call returns the same path and starts no converter.
C21_CacheReuse ==
    [][ \A p \in Callers :
          ( /\ pc[p] = "done" /\ req[p].result # NoString
            /\ pc'[p] \in {"respond", "convert"}
            /\ req'[p].fid = req[p].fid )
          => /\ pc'[p] = "respond"
             /\ req'[p].result = req[p].result
      ]_vars

\* C22: the file whose path get_or_generate_office_preview returns is not
\* older than the source it was asked to render.
C22_NoStalePreview ==
    \A p \in Callers :
        ( /\ pc[p] = "respond" /\ req[p].result # NoString
          /\ InCache(req[p].result) /\ Exists(req[p].src) )
        => cache[req[p].result].mtime >= disk[req[p].src].mtime

\* C27: the file whose path get_or_generate_office_preview returns for a
\* record was rendered from that record's stored file, not from the file of
\* another record with the same base name.
C27_OwnArtifact ==
    \A p \in Callers :
        ( /\ pc[p] = "respond" /\ req[p].result # NoString
          /\ InCache(req[p].result) )
        => get_file_path(TheContract, files[cache[req[p].result].of])
              = req[p].src

\* C23: after a conversion that reported success the output is looked for
\* under the target name, then under <source base>.pdf, then as the newest
\* pdf of the preview directory; a file found under another name than the
\* target is renamed to the target, and the target's path is returned.
C23_LocateOrder ==
    [][ \A p \in Callers :
          (pc[p] = "locate" /\ pc'[p] = "respond")
          => LET target == req[p].target
                 candidate == SrcCandidate(req[p].src)
             IN  IF InCache(target)
                 THEN req'[p].result = target /\ cache' = cache
                 ELSE IF InCache(candidate)
                 THEN /\ req'[p].result = target
                      /\ cache' = Renamed(candidate, target)
                 ELSE DOMAIN cache # {}
                      => /\ req'[p].result = target
                         /\ \E n \in DOMAIN cache :
                              /\ \A m \in DOMAIN cache :
                                   cache[m].mtime <= cache[n].mtime
                              /\ cache' = Renamed(n, target)
      ]_vars

\* C24: get_or_generate_office_preview returns None when the record is no
\* office file, and then no converter is started; when the converter cannot
\* be started; when it exits with a failure or is killed at the timeout; and
\* when the conversion leaves no pdf in the preview directory. No step of a
\* preview request changes a row of project_files.
Renderable(pf) ==
    LET name == Lower(OrElse(pf.original_filename, pf.stored_filename))
    IN  HasDot(name) /\ ExtOf(name) \in OFFICE_PREVIEW_EXTS

C24_NoneOnFailure ==
    [][ \A p \in Callers :
          /\ ( /\ pc[p] \in {"idle", "done"}
               /\ pc'[p] \in {"respond", "convert"}
               /\ ~Renderable(files[req'[p].fid]) )
             => /\ pc'[p] = "respond"
                /\ req'[p].result = NoString
                /\ ~req'[p].invoked
                /\ conv' = conv
          /\ (pc[p] \in {"convert", "wait"} /\ pc'[p] = "respond")
             => req'[p].result = NoString
          /\ (pc[p] = "locate" /\ pc'[p] = "respond" /\ DOMAIN cache = {})
             => req'[p].result = NoString
          /\ pc'[p] # pc[p] => files' = files
      ]_vars

\* the converter of an office file has been killed at the timeout with its
\* output cut short, and the call has come back with None
C24_Witness ==
    /\ pc[1] = "respond"
    /\ req[1].invoked /\ req[1].result = NoString
    /\ Renderable(files[req[1].fid])
    /\ \E n \in DOMAIN cache : cache[n].torn /\ cache[n].of = req[1].fid

\* C25: the name generate_file_name returns is at most 180 characters and the
\* extension long, and holds no space and none of \ / : * ? " < > |.
DotExt(filename) ==
    IF HasDot(filename)
    THEN SubSeq(filename, LastDot(filename), Len(filename)) ELSE <<>>

C25_NameSafe ==
    resp.op = "name"
    => /\ Len(resp.body) <= 180 + Len(DotExt(resp.arg.original_filename))
       /\ \A i \in 1..Len(resp.body) :
            resp.body[i] \notin {"\\", "/", ":", "*", "?", "\"", "<", ">", "|", " "}

\* C26: in the name generate_file_name returns, each of company, project
\* code, contract number, contract name, original base name, version and
\* author stands as its value with the unsafe characters removed, or, when
\* nothing is left of it, as its placeholder.
Clean(text, placeholder) ==
    LET kept == SelectSeq(text, LAMBDA c :
                    c \notin {"\\", "/", ":", "*", "?", "\"", "<", ">", "|"})
        safe == [i \in 1..Len(kept) |-> IF kept[i] = " " THEN "_" ELSE kept[i]]
    IN  IF safe = <<>> THEN placeholder ELSE safe

ClaimedName(a) ==
    LET base ==
            Clean(a.contract.company, <<"N", "o", "C", "o", "m", "p", "a", "n", "y">>)
            \o <<"_">> \o
            Clean(a.contract.project_code, <<"N", "o", "P", "r", "o", "j", "e", "c", "t">>)
            \o <<"_">> \o
            Clean(a.contract.contract_number,
                  <<"N", "o", "C", "o", "n", "t", "r", "a", "c", "t", "N", "o">>)
            \o <<"_">> \o
            Clean(a.contract.name, <<"N", "o", "N", "a", "m", "e">>)
            \o <<"_">> \o today_str \o <<"_">> \o
            sanitize_part(FILE_TYPE_NAME_MAP(a.file_type))
            \o <<"_">> \o
            Clean(StemOf(a.original_filename),
                  <<"N", "o", "F", "i", "l", "e", "n", "a", "m", "e">>)
            \o <<"_">> \o Clean(a.version, <<"V", "1">>)
            \o <<"_">> \o Clean(a.author, <<"u", "n", "k", "n", "o", "w", "n">>)
    IN  SubSeq(base, 1, IF Len(base) > 180 THEN 180 ELSE Len(base))
        \o Lower(DotExt(a.original_filename))

C26_NoEmptyField ==
    resp.op = "name" => resp.body = ClaimedName(resp.arg)

\* C28: a list made for a viewer whose role the download check takes for
\* customer (after normalize_role: other case, blanks around it, the alias)
\* holds only records that are public and of category contract or tech, the
\* records the download check lets such a viewer download.
C28_ExternalViewerAgree ==
    ( /\ resp.op = "list"
      /\ normalize_role(RoleOf(resp.actor)) = R_customer )
    => \A k \in 1..Len(resp.body) :
          /\ files[resp.body[k]].is_public
          /\ files[resp.body[k]].file_type \in {"contract", "tech"}
          /\ RouteDownloadVerdict(resp.actor, files[resp.body[k]]) = "ok"

\* C29: on a quiet system, for each of is_deleted and is_public, the newest
\* operation log entry of record 1 that carries the field in "new" has the
\* record's current value, and every entry that carries the field in "old"
\* has there the value its predecessor carries in "new"
EntriesFor(fid, field) ==
    SelectSeq(logs, LAMBDA l :
        /\ l.object_id = fid
        /\ l.detail # None
        /\ "new" \in DOMAIN l.detail
        /\ field \in DOMAIN l.detail["new"])

C29_AuditTrailConsistent ==
    (Quiet /\ Idle /\ HasRow(1)) =>
        \A field \in {"is_deleted", "is_public"} :
            LET es == EntriesFor(1, field)
            IN /\ es # <<>> =>
                    es[Len(es)].detail["new"][field] = files[1][field]
               /\ \A i \in 2..Len(es) :
                    ("old" \in DOMAIN es[i].detail
                       /\ field \in DOMAIN es[i].detail["old"]) =>
                        es[i].detail["old"][field]
                          = es[i - 1].detail["new"][field]

\* C30: a call that ends with the error of the operation log write leaves
\* the flags of the record as they were before the call
C30_NoChangeWithoutAudit ==
    [][(Idle /\ resp'.status = "SQLAlchemyError") =>
          /\ Len(files') = Len(files)
          /\ \A fid \in FileIds :
               /\ files'[fid].is_deleted = files[fid].is_deleted
               /\ files'[fid].is_public = files[fid].is_public]_vars


====
